---- MODULE Spec2Model ----
(***************************************************************************)
(* POSIX message-queue backend of libipc (src/libipc/msgq_posix.c).        *)
(*                                                                         *)
(* One server endpoint "S" and two client endpoints "A", "B", each living  *)
(* in a process of its own unless host says otherwise.  The kernel side of  *)
(* a queue (its name, the messages it holds, the one-shot mq_notify        *)
(* registration) is modelled                                               *)
(* with the Linux semantics of mq_overview(7)/mq_notify(3): a registered   *)
(* notification fires only when a message arrives on an EMPTY queue, and   *)
(* firing removes the registration; SIGEV_THREAD runs the handler on a     *)
(* new thread per firing.                                                  *)
(*                                                                         *)
(* Time is abstracted: the 5000 ms of sem_timedwait are long against any   *)
(* step of a handler thread or of accept, so the timeout may expire only   *)
(* when no such internal step is pending (see Quiescent).  Calls the       *)
(* application makes (init, accept, connect, send, ...) are free to come   *)
(* at any time.                                                            *)
(*                                                                         *)
(* MAX_IPC_MESSAGE_SIZE comes from libipc.h, which is not among the        *)
(* sources; it is the length the handlers pass to mq_receive, which fails  *)
(* with EMSGSIZE unless that length is at least the queue's message size   *)
(* (the comment at line 91 of the source).  It is taken to be 1024.        *)
(***************************************************************************)
EXTENDS Integers, Sequences, FiniteSets, TLC

\* ------------------------------------------------------------------ bounds
\* depth of every queue in the model (MQ_MAXMSG, 5 in the source, scaled)
MaxMsg == 2
\* application payloads sent, over all endpoints
MaxSends == 2
\* connect calls one client endpoint makes
MaxAttempts == 2

\* ------------------------------------------------------- program constants
MAX_MQ_NAME == 256
MQ_MSGSIZE == 1024
\* from libipc.h: the length of the handlers' receive buffers
MAX_IPC_MESSAGE_SIZE == 1024

\* ---------------------------------------------------------------- universe
Servers == {"S"}
Clients == {"A", "B"}
Endpoints == Servers \cup Clients

\* ctx->role, fixed by the caller of init
role(e) == IF e \in Servers THEN "IPC_SERVER" ELSE "IPC_CLIENT"

\* the queue name the caller passes to init: one byte string per endpoint
NameOf(e) == CASE e = "S" -> <<7>> [] e = "A" -> <<8>> [] e = "B" -> <<9>>

\* application payloads: byte strings of length 1 and 2
Payloads == {<<1>>, <<2, 3>>}
\* bytes of the shared receive buffer that the model keeps
BufLen == 2

NoQ == "none"
\* a write descriptor open on a queue object whose name was unlinked and given
\* to a new queue: no one reads what is sent on it
Orphan == "orphan"

VARIABLES
    est,        \* endpoint life: "none" (before init), "live", "freed" (ctx freed by deinit)
    host,       \* the process an endpoint lives in (fixed at the start)
    proc,       \* per process: "up" or "crashed"
    mq_wr,      \* ctx->mq_wr: the queue object the write descriptor refers to, or NoQ
    mq_wr_name, \* ctx->mq_wr_name
    sem,        \* ctx->sem
    parent,     \* ctx->parent # NULL
    linked,     \* kernel: the queue's name exists
    msgs,       \* kernel: messages held by the queue, oldest first
    notify,     \* kernel: handler registered by mq_notify on the queue, or "none"
    thr,        \* handler threads started by firings and still running
    cpc,        \* where the endpoint's caller thread is
    res,        \* what the last accept/connect returned
    recv_cb,    \* per process: _mq_recv_cb # NULL
    recv_buf,   \* per process: _mq_recv_buf, [st, data, gen]; gen counts callocs
    calls,      \* history: invocations of the receive callback
    fault,      \* history: undefined behaviour the endpoint has run into
    hist        \* history: counters of calls and facts about the latest connect

vars == <<host, est, proc, mq_wr, mq_wr_name, sem, parent, linked, msgs, notify, thr,
          cpc, res, recv_cb, recv_buf, calls, fault, hist>>

\* ------------------------------------------------------------ pure helpers
Min(a, b) == IF a < b THEN a ELSE b

\* strncpy(dst, src, n) of a string shorter than n, or its first n bytes
StrNCpy(s, n) == SubSeq(s, 1, Min(Len(s), n))

\* mutant of StrDiffer: the echo check lets every payload pass
StrDiffer_never(a, b) == FALSE

\* strcmp(a, b) # 0
StrDiffer(a, b) == a # b

\* mutant of QueueNamed: the open does not fail for a name that is gone
QueueNamed_unchecked(n) == CHOOSE q \in Endpoints : NameOf(q) = n

\* mq_open(name, O_WRONLY ...) without O_CREAT: the queue bearing the name, or NoQ
QueueNamed(n) ==
    IF \E q \in Endpoints : linked[q] /\ NameOf(q) = n
      THEN CHOOSE q \in Endpoints : linked[q] /\ NameOf(q) = n
      ELSE NoQ

\* mq_receive copies the message over the head of the buffer
Overwrite(buf, m) == [i \in 1..BufLen |-> IF i <= Len(m) THEN m[i] ELSE buf[i]]

ZeroBuf == [i \in 1..BufLen |-> 0]

FreshId(T) == CHOOSE i \in 0..Cardinality(T) : \A t \in T : t.id # i

\* mq_receive(ctx->mq_rd, buf, len) of the handlers has something to return:
\* the queue holds a message and len is not below the queue's message size
CanReceive(e) == msgs[e] # <<>> /\ MAX_IPC_MESSAGE_SIZE >= MQ_MSGSIZE

\* ctx->mq_rd_name as init stores it
mq_rd_name(e) == StrNCpy(NameOf(e), MAX_MQ_NAME)

\* the names that handshake messages carry
HandshakeNames == {NameOf(e) : e \in Endpoints}

Up(e) == proc[host[e]] = "up"

\* A handler thread: fn is the function mq_notify registered, pc the place it
\* has reached, ipc whether the ctx->parent it read was set, got the message
\* mq_receive gave it; late (history) tells that an earlier firing of the
\* endpoint had failed when this one was triggered.
Thread(i, f, l) ==
    [id |-> i, fn |-> f, pc |-> "start", ipc |-> FALSE, got |-> <<>>, late |-> l]

\* ------------------------------------------------------------------- Init
InitCtx ==
    /\ est = [e \in Endpoints |-> "none"]
    /\ proc = [e \in Endpoints |-> "up"]
    /\ mq_wr = [e \in Endpoints |-> NoQ]
    /\ mq_wr_name = [e \in Endpoints |-> <<>>]
    /\ sem = [e \in Endpoints |-> 0]
    /\ parent = [e \in Endpoints |-> FALSE]
    /\ notify = [e \in Endpoints |-> "none"]
    /\ thr = [e \in Endpoints |-> {}]
    /\ cpc = [e \in Endpoints |-> "idle"]
    /\ res = [e \in Endpoints |-> "none"]
    /\ recv_cb = [e \in Endpoints |-> FALSE]
    /\ recv_buf = [e \in Endpoints |-> [st |-> "null", data |-> ZeroBuf, gen |-> 0]]
    /\ calls = [e \in Endpoints |-> {}]
    /\ fault = [e \in Endpoints |-> "none"]
    /\ hist = [e \in Endpoints |->
                 [att |-> 0, acc |-> 0, sent |-> 0, inAcc |-> FALSE,
                  toNoAcc |-> FALSE, gate |-> FALSE, won |-> FALSE, uad |-> FALSE,
                  failed |-> FALSE, misdial |-> FALSE]]

\* No endpoint exists yet and no queue name is in use; every endpoint is in a
\* process of its own.
Init ==
    /\ InitCtx
    /\ host = [e \in Endpoints |-> e]
    /\ linked = [e \in Endpoints |-> FALSE]
    /\ msgs = [e \in Endpoints |-> <<>>]

\* ------------------------------------------------------------ kernel side
\* A successful mq_send of m on queue q.  The message is appended; if the queue
\* was empty and a notification is registered, the registration is consumed and
\* the registered handler starts on a new thread of the owner's process.
Deliver(q, m) ==
    IF q = Orphan THEN UNCHANGED <<msgs, notify, thr>>
    ELSE
    /\ msgs' = [msgs EXCEPT ![q] = Append(@, m)]
    /\ IF Len(msgs[q]) = 0 /\ notify[q] # "none"
         THEN /\ notify' = [notify EXCEPT ![q] = "none"]
              /\ thr' = [thr EXCEPT ![q] = @ \cup {Thread(FreshId(@), notify[q], hist[q].failed)}]
         ELSE UNCHANGED <<notify, thr>>

\* The process of e dies (SIGSEGV/abort): its threads are gone and the kernel
\* closes its descriptors, which drops its notification registration.
Crash(e, why) ==
    /\ proc' = [proc EXCEPT ![host[e]] = "crashed"]
    /\ thr' = [x \in Endpoints |-> IF host[x] = host[e] THEN {} ELSE thr[x]]
    /\ notify' = [x \in Endpoints |->
                    IF host[x] = host[e] THEN "none" ELSE notify[x]]
    /\ fault' = [fault EXCEPT ![e] = why]

\* A handler thread t of e runs into undefined behaviour: the process dies, or
\* the access happens to go through and the call made with the garbage value
\* fails, so that the handler returns.
ThreadUB(e, t, why) ==
    \/ /\ Crash(e, why)
       /\ UNCHANGED <<est, mq_wr, mq_wr_name, sem, parent, linked, msgs,
                      cpc, res, recv_cb, recv_buf, calls, hist>>
    \/ /\ fault' = [fault EXCEPT ![e] = why]
       /\ thr' = [thr EXCEPT ![e] = @ \ {t}]
       /\ UNCHANGED <<est, proc, mq_wr, mq_wr_name, sem, parent, linked, msgs,
                      notify, cpc, res, recv_cb, recv_buf, calls, hist>>

\* ------------------------------------------------------------------- init
\* mutant of AfterUnlink: init does not unlink the name first
AfterUnlink_skipped(L, n) == L

\* the queue names in existence after mq_unlink(n) (line 142)
AfterUnlink(L, n) == [q \in Endpoints |-> L[q] /\ NameOf(q) # n]

\* _mq_init: unlink a stale name, create the read queue empty with an exclusive
\* create (which fails, and init with it, if the name exists), sem_init(0),
\* allocate the receive buffer, register on_connect.  Descriptors that were
\* open on a stale queue of that name stay on the old queue object.
mq_init(e) ==
    /\ UNCHANGED host
    /\ est[e] = "none" /\ Up(e) /\ res[e] # "initfail"
    /\ IF AfterUnlink(linked, NameOf(e))[e]
         THEN /\ res' = [res EXCEPT ![e] = "initfail"]
              /\ UNCHANGED <<est, linked, msgs, mq_wr, sem, recv_buf, notify>>
         ELSE /\ est' = [est EXCEPT ![e] = "live"]
              /\ linked' = [AfterUnlink(linked, NameOf(e)) EXCEPT ![e] = TRUE]
              /\ msgs' = [msgs EXCEPT ![e] = <<>>]
              /\ mq_wr' = [x \in Endpoints |->
                             IF mq_wr[x] = e THEN Orphan ELSE mq_wr[x]]
              /\ sem' = [sem EXCEPT ![e] = 0]
              /\ recv_buf' = [recv_buf EXCEPT
                                ![host[e]] = [st |-> "alloc", data |-> ZeroBuf,
                                              gen |-> @.gen + 1]]
              /\ notify' = [notify EXCEPT ![e] = "on_connect"]
              /\ UNCHANGED res
    /\ UNCHANGED <<proc, mq_wr_name, parent, thr, cpc, recv_cb,
                   calls, fault, hist>>

\* _mq_set_recv_cb
mq_set_recv_cb(e) ==
    /\ UNCHANGED host
    /\ est[e] = "live" /\ Up(e) /\ cpc[e] = "idle"
    /\ ~recv_cb[host[e]]
    /\ recv_cb' = [recv_cb EXCEPT ![host[e]] = TRUE]
    /\ UNCHANGED <<est, proc, mq_wr, mq_wr_name, sem, parent, linked, msgs,
                   notify, thr, cpc, res, recv_buf, calls, fault, hist>>

\* --------------------------------------------------------- handler threads
\* mutant of NextHandler: a handler re-registers itself
NextHandler_same(f) == f

\* the function a handler f passes to _mq_notify_update (lines 87 and 108)
NextHandler(f) == "on_recv"

\* on_recv lines 85-90 and on_connect lines 106-111: read ctx->parent, then
\* re-register with on_recv; a failed mq_notify ends the handler.
on_start(e) ==
  \E t \in thr[e] :
    /\ UNCHANGED host
    /\ Up(e) /\ t.pc = "start"
    /\ IF est[e] = "freed"
         THEN ThreadUB(e, t, "use_after_free")
         ELSE /\ IF notify[e] = "none"
                   THEN /\ notify' = [notify EXCEPT ![e] = NextHandler(t.fn)]
                        /\ thr' = [thr EXCEPT ![e] = (@ \ {t}) \cup
                                     {[t EXCEPT !.pc = "recv", !.ipc = parent[e]]}]
                        /\ UNCHANGED hist
                   ELSE /\ thr' = [thr EXCEPT ![e] = @ \ {t}]
                        /\ hist' = [hist EXCEPT ![e].failed = TRUE]
                        /\ UNCHANGED notify
              /\ UNCHANGED <<est, proc, mq_wr, mq_wr_name, sem, parent, linked,
                             msgs, cpc, res, recv_cb, recv_buf, calls, fault>>

\* on_recv lines 92-96: _mq_recv through the parent into the shared buffer.
on_recv_recv(e) ==
  \E t \in thr[e] :
    /\ UNCHANGED host
    /\ Up(e) /\ t.fn = "on_recv" /\ t.pc = "recv"
    /\ IF est[e] = "freed" THEN ThreadUB(e, t, "use_after_free")
       ELSE IF ~t.ipc THEN ThreadUB(e, t, "null_parent")
       ELSE IF CanReceive(e) /\ recv_buf[host[e]].st # "alloc"
         THEN ThreadUB(e, t, "buffer_freed")
       ELSE /\ IF ~CanReceive(e)
                 THEN /\ thr' = [thr EXCEPT ![e] = @ \ {t}]
                      /\ hist' = [hist EXCEPT ![e].failed = TRUE]
                      /\ UNCHANGED <<msgs, recv_buf>>
                 ELSE /\ msgs' = [msgs EXCEPT ![e] = Tail(@)]
                      /\ recv_buf' = [recv_buf EXCEPT
                                        ![host[e]].data = Overwrite(@, Head(msgs[e]))]
                      /\ thr' = [thr EXCEPT ![e] = (@ \ {t}) \cup
                                   {[t EXCEPT !.pc = "cb", !.got = Head(msgs[e])]}]
                      /\ UNCHANGED hist
            /\ UNCHANGED <<est, proc, mq_wr, mq_wr_name, sem, parent, linked,
                           notify, cpc, res, recv_cb, calls, fault>>

\* on_recv lines 97-99: hand the shared buffer and the length to the callback.
on_recv_cb(e) ==
  \E t \in thr[e] :
    /\ UNCHANGED host
    /\ Up(e) /\ t.fn = "on_recv" /\ t.pc = "cb"
    /\ IF est[e] = "freed" /\ recv_cb[host[e]]
         THEN ThreadUB(e, t, "use_after_free")
       ELSE IF recv_buf[host[e]].st # "alloc" /\ recv_cb[host[e]]
         THEN ThreadUB(e, t, "buffer_freed")
       ELSE /\ thr' = [thr EXCEPT ![e] = @ \ {t}]
            /\ calls' = [calls EXCEPT ![e] =
                  IF recv_cb[host[e]]
                    THEN @ \cup {[got |-> t.got,
                                  seen |-> SubSeq(recv_buf[host[e]].data, 1,
                                                  Len(t.got)),
                                  gate |-> hist[e].gate,
                                  late |-> t.late]}
                    ELSE @]
            /\ UNCHANGED <<est, proc, mq_wr, mq_wr_name, sem, parent, linked, msgs,
                           notify, cpc, res, recv_cb, recv_buf, fault, hist>>

\* on_connect lines 112-126: receive into the local buffer; the server keeps
\* the payload as its peer name, the client compares it with its own name;
\* then sem_post.
on_connect_recv(e) ==
  \E t \in thr[e] :
    /\ UNCHANGED host
    /\ Up(e) /\ t.fn = "on_connect" /\ t.pc = "recv"
    /\ IF est[e] = "freed" THEN ThreadUB(e, t, "use_after_free")
       ELSE IF ~t.ipc THEN ThreadUB(e, t, "null_parent")
       ELSE /\ thr' = [thr EXCEPT ![e] = @ \ {t}]
            /\ IF ~CanReceive(e)
                 THEN /\ hist' = [hist EXCEPT ![e].failed = TRUE]
                      /\ UNCHANGED <<msgs, mq_wr_name, sem>>
                 ELSE /\ msgs' = [msgs EXCEPT ![e] = Tail(@)]
                      /\ LET buf == Head(msgs[e]) IN
                         IF Len(buf) <= 0
                           THEN /\ hist' = [hist EXCEPT ![e].failed = TRUE]
                                /\ UNCHANGED <<mq_wr_name, sem>>
                         ELSE IF role(e) = "IPC_SERVER"
                           THEN /\ mq_wr_name' = [mq_wr_name EXCEPT
                                                    ![e] = StrNCpy(buf, MAX_MQ_NAME)]
                                /\ sem' = [sem EXCEPT ![e] = @ + 1]
                                /\ hist' = [hist EXCEPT ![e].gate = TRUE]
                         ELSE IF StrDiffer(buf, mq_rd_name(e))
                           THEN UNCHANGED <<mq_wr_name, sem, hist>>
                           ELSE /\ sem' = [sem EXCEPT ![e] = @ + 1]
                                /\ hist' = [hist EXCEPT ![e].gate = TRUE]
                                /\ UNCHANGED mq_wr_name
            /\ UNCHANGED <<est, proc, mq_wr, parent, linked, notify, cpc, res,
                           recv_cb, recv_buf, calls, fault>>

\* ------------------------------------------------------------------ accept
\* a blocking mq_send on the write descriptor of e can complete
CanSend(e) ==
    /\ mq_wr[e] # NoQ
    /\ mq_wr[e] # Orphan => Len(msgs[mq_wr[e]]) < MaxMsg

\* _mq_accept lines 176-184: set the back pointer, block in sem_wait
mq_accept_call(e) ==
    /\ UNCHANGED host
    /\ role(e) = "IPC_SERVER" /\ est[e] = "live" /\ Up(e) /\ cpc[e] = "idle"
    /\ hist[e].acc < MaxAttempts
    /\ parent' = [parent EXCEPT ![e] = TRUE]
    /\ cpc' = [cpc EXCEPT ![e] = "acc_wait"]
    /\ res' = [res EXCEPT ![e] = "pending"]
    /\ hist' = [hist EXCEPT ![e].acc = @ + 1]
    /\ UNCHANGED <<est, proc, mq_wr, mq_wr_name, sem, linked, msgs, notify, thr,
                   recv_cb, recv_buf, calls, fault>>

\* _mq_accept lines 184-190: sem_wait returns, open the write queue by the
\* stored peer name
mq_accept_wake(e) ==
    /\ UNCHANGED host
    /\ Up(e) /\ cpc[e] = "acc_wait" /\ sem[e] > 0
    /\ sem' = [sem EXCEPT ![e] = @ - 1]
    /\ mq_wr' = [mq_wr EXCEPT ![e] = QueueNamed(mq_wr_name[e])]
    /\ IF QueueNamed(mq_wr_name[e]) = NoQ
         THEN /\ cpc' = [cpc EXCEPT ![e] = "idle"]
              /\ res' = [res EXCEPT ![e] = "openfail"]
         ELSE /\ cpc' = [cpc EXCEPT ![e] = "acc_send"]
              /\ UNCHANGED res
    /\ UNCHANGED <<est, proc, mq_wr_name, parent, linked, msgs, notify, thr,
                   recv_cb, recv_buf, calls, fault, hist>>

\* mutant of Confirmation: accept sends the server's own read-queue name
Confirmation_own(e) == StrNCpy(NameOf(e), MAX_MQ_NAME)

\* the payload _mq_accept passes to _mq_send at line 191
Confirmation(e) == mq_wr_name[e]

\* _mq_accept lines 191-195: send the confirmation (a blocking mq_send)
mq_accept_send(e) ==
    /\ UNCHANGED host
    /\ Up(e) /\ cpc[e] = "acc_send" /\ CanSend(e)
    /\ Deliver(mq_wr[e], Confirmation(e))
    /\ cpc' = [cpc EXCEPT ![e] = "idle"]
    /\ res' = [res EXCEPT ![e] = "ok"]
    /\ hist' = [hist EXCEPT ![e].won = TRUE]
    /\ UNCHANGED <<est, proc, mq_wr, mq_wr_name, sem, parent, linked,
                   recv_cb, recv_buf, calls, fault>>

\* ----------------------------------------------------------------- connect
\* _mq_connect lines 200-214: set the back pointer, open the named queue for
\* writing; a failed open returns -1 at once
mq_connect_call(c, n) ==
    /\ UNCHANGED host
    /\ role(c) = "IPC_CLIENT" /\ est[c] = "live" /\ Up(c) /\ cpc[c] = "idle"
    /\ hist[c].att < MaxAttempts
    /\ parent' = [parent EXCEPT ![c] = TRUE]
    /\ mq_wr' = [mq_wr EXCEPT ![c] = QueueNamed(n)]
    /\ hist' = [hist EXCEPT ![c].att = @ + 1,
                            ![c].inAcc = \E s \in Servers :
                                            /\ NameOf(s) = n /\ Up(s)
                                            /\ cpc[s] = "acc_wait",
                            ![c].misdial =
                                @ \/ n \notin {NameOf(s) : s \in Servers}]
    /\ IF QueueNamed(n) = NoQ
         THEN /\ cpc' = [cpc EXCEPT ![c] = "idle"]
              /\ res' = [res EXCEPT ![c] = "openfail"]
              /\ UNCHANGED mq_wr_name
         ELSE /\ cpc' = [cpc EXCEPT ![c] = "conn_send"]
              /\ res' = [res EXCEPT ![c] = "pending"]
              /\ mq_wr_name' = [mq_wr_name EXCEPT ![c] = StrNCpy(n, MAX_MQ_NAME)]
    /\ UNCHANGED <<est, proc, sem, linked, msgs, notify, thr,
                   recv_cb, recv_buf, calls, fault>>

\* _mq_connect lines 215-218: send the client's own read-queue name
mq_connect_send(c) ==
    /\ UNCHANGED host
    /\ Up(c) /\ cpc[c] = "conn_send" /\ CanSend(c)
    /\ Deliver(mq_wr[c], mq_rd_name(c))
    /\ cpc' = [cpc EXCEPT ![c] = "conn_wait"]
    /\ UNCHANGED <<est, proc, mq_wr, mq_wr_name, sem, parent, linked, res,
                   recv_cb, recv_buf, calls, fault, hist>>

\* mutant of connect_result: the outcome of sem_timedwait is not looked at
connect_result_unchecked(taken) == "ok"

\* _mq_connect lines 234-238: what connect returns for the outcome of
\* sem_timedwait (0: the gate was taken, -1: the wait expired)
connect_result(taken) == IF taken THEN "ok" ELSE "timeout"

\* _mq_connect lines 234-238: sem_timedwait takes the gate
mq_connect_wake(c) ==
    /\ UNCHANGED host
    /\ Up(c) /\ cpc[c] = "conn_wait" /\ sem[c] > 0
    /\ sem' = [sem EXCEPT ![c] = @ - 1]
    /\ cpc' = [cpc EXCEPT ![c] = "idle"]
    /\ res' = [res EXCEPT ![c] = connect_result(TRUE)]
    /\ hist' = [hist EXCEPT ![c].won = @ \/ connect_result(TRUE) = "ok"]
    /\ UNCHANGED <<est, proc, mq_wr, mq_wr_name, parent, linked, msgs, notify,
                   thr, recv_cb, recv_buf, calls, fault>>

\* No handler thread has a step to take, no waiter of a posted gate is still
\* to wake, no blocked send can go on: only then do 5000 ms pass.
Quiescent ==
    \A e \in Endpoints :
        Up(e) => /\ thr[e] = {}
                 /\ ~(cpc[e] \in {"acc_wait", "conn_wait"} /\ sem[e] > 0)
                 /\ ~(cpc[e] \in {"acc_send", "conn_send"} /\ CanSend(e))

\* _mq_connect lines 234-237: sem_timedwait expires
mq_connect_expire(c) ==
    /\ UNCHANGED host
    /\ Up(c) /\ cpc[c] = "conn_wait" /\ sem[c] = 0
    /\ cpc' = [cpc EXCEPT ![c] = "idle"]
    /\ res' = [res EXCEPT ![c] = connect_result(FALSE)]
    /\ hist' = [hist EXCEPT ![c].toNoAcc =
                                @ \/ \E s \in Servers :
                                        /\ NameOf(s) = mq_wr_name[c]
                                        /\ hist[s].acc = 0,
                            ![c].won = @ \/ connect_result(FALSE) = "ok"]
    /\ UNCHANGED <<est, proc, mq_wr, mq_wr_name, sem, parent, linked, msgs,
                   notify, thr, recv_cb, recv_buf, calls, fault>>

\* the expiry as it comes when every other thread runs promptly
mq_connect_timeout(c) == Quiescent /\ mq_connect_expire(c)

\* ------------------------------------------------------------ send, receive
\* application payloads the endpoints have put on queues so far
RECURSIVE SumSent(_)
SumSent(E) == IF E = {} THEN 0
              ELSE LET e == CHOOSE x \in E : TRUE
                   IN hist[e].sent + SumSent(E \ {e})
Sent == SumSent(Endpoints)

\* _mq_send called by the application: mq_send on ctx->mq_wr (blocking while
\* the queue is full); a descriptor that is no queue, or a payload longer than
\* the queue's message size, gives -1
mq_send(e, p) ==
    /\ UNCHANGED host
    /\ est[e] = "live" /\ Up(e) /\ cpc[e] = "idle"
    /\ Sent < MaxSends
    /\ IF mq_wr[e] = NoQ \/ Len(p) > MQ_MSGSIZE
         THEN UNCHANGED <<msgs, notify, thr, hist>>
         ELSE /\ CanSend(e)
              /\ Deliver(mq_wr[e], p)
              /\ hist' = [hist EXCEPT ![e].sent = @ + 1]
    /\ UNCHANGED <<est, proc, mq_wr, mq_wr_name, sem, parent, linked, cpc, res,
                   recv_cb, recv_buf, calls, fault>>

\* _mq_recv called by the application: a non-blocking mq_receive on the read
\* queue into the caller's buffer (an empty queue gives -1 and changes nothing)
mq_recv(e) ==
    /\ UNCHANGED host
    /\ est[e] = "live" /\ Up(e) /\ cpc[e] = "idle"
    /\ msgs[e] # <<>>
    /\ msgs' = [msgs EXCEPT ![e] = Tail(@)]
    /\ UNCHANGED <<est, proc, mq_wr, mq_wr_name, sem, parent, linked, notify,
                   thr, cpc, res, recv_cb, recv_buf, calls, fault, hist>>

\* ------------------------------------------------------------------ deinit
\* the names _mq_deinit passes to mq_unlink (lines 249-250)
Unlinked(e) == {mq_rd_name(e), mq_wr_name[e]}

\* _mq_deinit: close both descriptors (closing the read descriptor drops the
\* notification registration), unlink, destroy the gate, free the receive
\* buffer and the context.  The caller's ipc->ctx keeps pointing at it, and
\* _mq_recv_buf keeps pointing at the freed buffer: a later deinit in the same
\* process frees it again, which kills the process or goes through.
mq_deinit(e) ==
    /\ UNCHANGED host
    /\ est[e] = "live" /\ Up(e) /\ cpc[e] = "idle"
    /\ linked' = [q \in Endpoints |-> linked[q] /\ NameOf(q) \notin Unlinked(e)]
    /\ recv_buf' = [recv_buf EXCEPT ![host[e]].st = "freed"]
    /\ est' = [est EXCEPT ![e] = "freed"]
    /\ IF recv_buf[host[e]].st = "freed"
         THEN \/ Crash(e, "double_free")
              \/ /\ fault' = [fault EXCEPT ![e] = "double_free"]
                 /\ notify' = [notify EXCEPT ![e] = "none"]
                 /\ UNCHANGED <<proc, thr>>
         ELSE /\ notify' = [notify EXCEPT ![e] = "none"]
              /\ UNCHANGED <<proc, thr, fault>>
    /\ UNCHANGED <<mq_wr, mq_wr_name, sem, parent, msgs, cpc, res,
                   recv_cb, calls, hist>>

\* Any operation of the table called on an endpoint after its deinit reads
\* the freed context (a second deinit frees it and the buffer again): the
\* process dies, or the stale descriptors make the call return -1.
mq_use_after_deinit(e, op) ==
    /\ UNCHANGED host
    /\ est[e] = "freed" /\ Up(e) /\ cpc[e] = "idle" /\ ~hist[e].uad
    /\ hist' = [hist EXCEPT ![e].uad = TRUE]
    /\ LET why == IF op = "deinit" THEN "double_free" ELSE "call_after_free" IN
       \/ /\ Crash(e, why)
          /\ UNCHANGED res
       \/ /\ fault' = [fault EXCEPT ![e] = why]
          /\ res' = [res EXCEPT ![e] = "fail"]
          /\ UNCHANGED <<proc, thr, notify>>
    /\ UNCHANGED <<est, mq_wr, mq_wr_name, sem, parent, linked, msgs, cpc,
                   recv_cb, recv_buf, calls>>

Ops == {"accept", "connect", "send", "recv", "deinit"}

\* ------------------------------------------------------------------- Next
ThreadStep(e) ==
    \/ on_start(e)
    \/ on_recv_recv(e)
    \/ on_recv_cb(e)
    \/ on_connect_recv(e)

\* what accept, connect and the handlers do
Handshake(e) ==
    \/ mq_accept_call(e)
    \/ mq_accept_wake(e)
    \/ mq_accept_send(e)
    \/ \E n \in {NameOf(s) : s \in Servers} : mq_connect_call(e, n)
    \/ mq_connect_send(e)
    \/ mq_connect_wake(e)
    \/ mq_connect_timeout(e)
    \/ ThreadStep(e)

\* One server and one client: handshake and traffic, no teardown.
Pair == {"S", "A"}

NextPair ==
    \E e \in Pair :
        \/ mq_init(e)
        \/ mq_set_recv_cb(e)
        \/ Handshake(e)
        \/ \E p \in Payloads : mq_send(e, p)

SpecPair == Init /\ [][NextPair]_vars

\* One server and two clients: handshakes only.
NextTrio ==
    \E e \in Endpoints :
        \/ mq_init(e)
        \/ mq_set_recv_cb(e)
        \/ Handshake(e)

SpecTrio == Init /\ [][NextTrio]_vars

\* One server and one client with teardown: handshake, the application's own
\* receive, deinit and calls made after it.
NextTeardown ==
    \E e \in Pair :
        \/ mq_init(e)
        \/ mq_set_recv_cb(e)
        \/ Handshake(e)
        \/ mq_recv(e)
        \/ mq_deinit(e)
        \/ \E op \in Ops : mq_use_after_deinit(e, op)

SpecTeardown == Init /\ [][NextTeardown]_vars

\* One server and two clients, where a client may call connect with any queue
\* name there is: the server's, the other client's or its own.
NextDial ==
    \E e \in Endpoints :
        \/ mq_init(e)
        \/ mq_accept_call(e)
        \/ mq_accept_wake(e)
        \/ mq_accept_send(e)
        \/ \E n \in HandshakeNames : mq_connect_call(e, n)
        \/ mq_connect_send(e)
        \/ mq_connect_wake(e)
        \/ mq_connect_timeout(e)
        \/ ThreadStep(e)

SpecDial == Init /\ [][NextDial]_vars

\* One server and one client with slow peers: the timed wait of connect may
\* expire whatever else is pending, so that a confirmation can come after the
\* timeout; connect is called with the server's name or the client's own.
NextSlow ==
    \E e \in Pair :
        \/ mq_init(e)
        \/ mq_accept_call(e)
        \/ mq_accept_wake(e)
        \/ mq_accept_send(e)
        \/ \E n \in {NameOf(q) : q \in Pair} : mq_connect_call(e, n)
        \/ mq_connect_send(e)
        \/ mq_connect_wake(e)
        \/ mq_connect_expire(e)
        \/ ThreadStep(e)

SpecSlow == Init /\ [][NextSlow]_vars

\* One server and one client whose applications also call receive themselves:
\* handshake, traffic and the application's own receive.
NextRecv ==
    \E e \in Pair :
        \/ mq_init(e)
        \/ mq_set_recv_cb(e)
        \/ Handshake(e)
        \/ \E p \in Payloads : mq_send(e, p)
        \/ mq_recv(e)

SpecRecv == Init /\ [][NextRecv]_vars

\* Queue names, and messages in the queues, that crashed processes left
\* behind before any endpoint of the scenario exists.
InitStale ==
    /\ InitCtx
    /\ host = [e \in Endpoints |-> e]
    /\ linked \in [Endpoints -> BOOLEAN]
    /\ msgs \in [Endpoints -> {<<>>, <<<<1>>>>}]
    /\ \A e \in Endpoints : (e \notin Pair \/ ~linked[e]) => msgs[e] = <<>>
    /\ \A e \in Endpoints \ Pair : ~linked[e]

\* One server and one client that start among stale queues: handshakes only.
NextStale ==
    \E e \in Pair :
        \/ mq_init(e)
        \/ Handshake(e)

SpecStale == InitStale /\ [][NextStale]_vars

\* The two client endpoints live in one process, the server in another:
\* handshakes, traffic and teardown.
InitShared ==
    /\ InitCtx
    /\ host = [e \in Endpoints |-> IF e \in Clients THEN "A" ELSE e]
    /\ linked = [e \in Endpoints |-> FALSE]
    /\ msgs = [e \in Endpoints |-> <<>>]

NextShared ==
    \E e \in Endpoints :
        \/ mq_init(e)
        \/ Handshake(e)
        \/ \E p \in {<<1>>} : mq_send(e, p)
        \/ mq_deinit(e)

SpecShared == InitShared /\ [][NextShared]_vars

\* The steps the scheduler owes: handler threads run, a posted gate wakes its
\* waiter, a send blocked on a full queue goes on once there is room, and the
\* timed wait expires.
Internal(e) ==
    \/ ThreadStep(e)
    \/ mq_accept_wake(e)
    \/ mq_accept_send(e)
    \/ mq_connect_send(e)
    \/ mq_connect_wake(e)
    \/ mq_connect_timeout(e)

FairPair == SpecPair /\ \A e \in Pair : WF_vars(Internal(e))

\* The dispatcher of e has left handshake mode: on_connect has signaled the
\* gate, and every firing from now on runs on_recv.
DataMode(e) ==
    /\ hist[e].gate
    /\ notify[e] # "on_connect"
    /\ \A t \in thr[e] : t.fn = "on_recv"

\* ------------------------------------------------------------------ claims

\* C1: a client's first connect, called while the server is blocked in accept,
\* never times out, and leads to accept and connect both having returned
\* success with both dispatchers in data mode.
C1_HandshakeCompletes ==
    /\ [](\A c \in Clients :
            (hist[c].att = 1 /\ hist[c].inAcc) => res[c] # "timeout")
    /\ \A c \in Pair \cap Clients :
          (hist[c].att = 1 /\ hist[c].inAcc)
             ~> (/\ hist[c].won /\ hist["S"].won
                 /\ DataMode(c) /\ DataMode("S"))

\* witness of C1: the first connect, made with the server in accept, has
\* returned success
C1_Witness ==
    /\ hist["A"].att = 1 /\ hist["A"].inAcc /\ res["A"] = "ok"
    /\ hist["S"].won /\ DataMode("A") /\ DataMode("S")

\* C2: every invocation of the receive callback on an endpoint that has run
\* into no fault hands over exactly the bytes, and the length, of the message
\* its firing received.
C2_RoundTrip ==
    \A e \in Endpoints :
        fault[e] = "none" => \A r \in calls[e] : r.seen = r.got

\* The endpoint is Connected and its dispatcher is at rest: the handshake
\* call has returned success, the read queue is empty, on_recv is registered
\* and no handler thread is running.
ConnectedIdle(e) ==
    /\ hist[e].won /\ fault[e] = "none"
    /\ msgs[e] = <<>> /\ thr[e] = {} /\ notify[e] = "on_recv"

\* C3: from a state where an endpoint is Connected with its dispatcher at
\* rest, the messages sent to it never stay in its read queue for ever:
\* whenever some are queued, the queue is later empty.
C3_RearmLiveness ==
    \A e \in Pair :
        [](ConnectedIdle(e) => [](msgs[e] # <<>> => <>(msgs[e] = <<>>)))

\* C4: when both clients have made their one connect call while the server
\* was blocked in accept, and both calls have returned, both returned success
\* and the server's write descriptor and confirmation went to each of them.
C4_TwoClients ==
    (/\ \A c \in Clients : hist[c].att = 1 /\ hist[c].inAcc /\ cpc[c] = "idle"
     /\ \A e \in Endpoints : fault[e] = "none")
       => \A c \in Clients : res[c] = "ok" /\ hist[c].gate

\* C5: a connect called while no queue bears the server's name returns the
\* open failure in that very step: no message is put on any queue, no handler
\* starts, the gate is not touched and the caller is not left waiting.
C5_NoServerFailsAtOpen ==
    [][\A c \in Clients :
          (hist'[c].att = hist[c].att + 1 /\ \A s \in Servers : ~linked[s])
             => /\ res'[c] = "openfail"
                /\ cpc'[c] = "idle"
                /\ msgs' = msgs /\ thr' = thr /\ sem' = sem]_vars

\* witness of C5: the server's queue name is gone after the server's deinit,
\* and a connect has returned the open failure with nothing queued
C5_Witness ==
    /\ hist["A"].att = 1 /\ res["A"] = "openfail" /\ cpc["A"] = "idle"
    /\ est["S"] = "freed" /\ ~linked["S"] /\ msgs["S"] = <<>>

\* C6: as long as accept has never been called on the server, no connect has
\* returned success and no client gate has been signaled; a connect that got
\* past the open can only have returned Timeout.
C6_NoAcceptNoSuccess ==
    \A c \in Clients :
        hist["S"].acc = 0
           => /\ res[c] \in {"none", "pending", "openfail", "timeout"}
              /\ sem[c] = 0 /\ ~hist[c].won

\* witness of C6: the server exists, accept was never called, and the
\* client's connect has returned Timeout
C6_Witness ==
    /\ est["S"] = "live" /\ hist["S"].acc = 0
    /\ hist["A"].att = 1 /\ res["A"] = "timeout" /\ cpc["A"] = "idle"

\* C7: a connect made with the server blocked in accept, on a client endpoint
\* whose earlier connect timed out because accept had not been called, returns
\* success.
C7_RetryAfterTimeout ==
    \A c \in Clients :
        (/\ hist[c].toNoAcc /\ hist[c].att >= 2 /\ hist[c].inAcc
         /\ cpc[c] = "idle")
           => res[c] = "ok"

\* C8: an operation called on an endpoint after its deinit returns failure and
\* leaves the process alive, without a read of the freed context or a second
\* free.
C8_UseAfterTeardown ==
    \A e \in Endpoints :
        hist[e].uad => /\ Up(e) /\ res[e] = "fail"
                       /\ fault[e] \notin {"call_after_free", "double_free"}

\* C9: deinit of an endpoint, in a run without faults, leaves every queue name
\* other than the endpoint's own read-queue name in existence.
C9_TeardownFrame ==
    [][\A e \in Endpoints :
          (/\ est[e] = "live" /\ est'[e] = "freed"
           /\ \A x \in Endpoints : fault[x] = "none")
             => \A q \in Endpoints :
                   NameOf(q) # mq_rd_name(e) => linked'[q] = linked[q]]_vars

\* C10: the receive callback of an endpoint that has run into no fault is
\* invoked only after the endpoint's handshake has signaled its gate, and
\* never with a handshake message (a queue name sent by connect or accept).
C10_CallbackOnlyConnected ==
    \A e \in Endpoints :
        fault[e] = "none"
           => \A r \in calls[e] : r.gate /\ r.got \notin HandshakeNames

\* C11 as the specification words it: the message accept puts on its write
\* queue as the confirmation is the server's own read-queue name.
C11_ConfirmationOwnName ==
    [][\A e \in Servers :
          (cpc[e] = "acc_send" /\ cpc'[e] = "idle")
             => msgs'[mq_wr[e]] = Append(msgs[mq_wr[e]], mq_rd_name(e))]_vars

\* C11, amended: after waking, accept has its write queue open on the queue
\* bearing the name the dispatcher stored from the first inbound message, and
\* the confirmation it sends on it is that stored peer name (the connecting
\* client's read-queue name), not the server's own name.
C11_ConfirmationIsPeerName ==
    [][\A e \in Servers :
          (cpc[e] = "acc_send" /\ cpc'[e] = "idle")
             => /\ mq_wr[e] \in Endpoints
                /\ linked[mq_wr[e]] /\ NameOf(mq_wr[e]) = mq_wr_name[e]
                /\ msgs'[mq_wr[e]] = Append(msgs[mq_wr[e]], mq_wr_name[e])
                /\ mq_wr_name[e] # mq_rd_name(e)]_vars

\* witness of C11: accept has returned success and the client's queue holds
\* the client's own name as the confirmation
C11_Witness ==
    /\ res["S"] = "ok" /\ mq_wr["S"] = "A"
    /\ mq_wr_name["S"] = mq_rd_name("A")
    /\ msgs["A"] # <<>> /\ Head(msgs["A"]) = mq_rd_name("A")

\* the on_connect handler of e takes a message off the read queue in this step
OnConnectReceives(e) ==
    /\ msgs[e] # <<>> /\ msgs'[e] = Tail(msgs[e])
    /\ \E t \in thr[e] : t.fn = "on_connect" /\ t.pc = "recv" /\ t \notin thr'[e]

\* C12: the gate of a client is signaled only in the step in which its
\* on_connect handler receives a payload equal to the client's own read-queue
\* name; when on_connect receives any other payload the gate is left alone;
\* a connect waiting on a gate that was never signaled returns only by
\* timeout, and no connect has returned success on such an endpoint.
C12_EchoCheck ==
    /\ [][\A c \in Clients :
            /\ sem'[c] > sem[c]
                 => OnConnectReceives(c) /\ Head(msgs[c]) = mq_rd_name(c)
            /\ (OnConnectReceives(c) /\ Head(msgs[c]) # mq_rd_name(c))
                 => sem'[c] = sem[c] /\ hist'[c].gate = hist[c].gate
            /\ (cpc[c] = "conn_wait" /\ cpc'[c] = "idle" /\ ~hist[c].gate)
                 => res'[c] = "timeout"]_vars
    /\ [](\A c \in Clients : ~hist[c].gate => sem[c] = 0 /\ res[c] # "ok")

\* witness of C12: client A's connect message reached client B's queue first,
\* B's on_connect has consumed it without signaling the gate, and B's own
\* connect to the server, which did send B its confirmation, timed out
C12_Witness ==
    /\ mq_wr["A"] = "B" /\ mq_wr["B"] = "S" /\ mq_wr["S"] = "B"
    /\ res["S"] = "ok" /\ res["B"] = "timeout" /\ fault["B"] = "none"
    /\ ~hist["B"].gate /\ sem["B"] = 0
    /\ notify["B"] # "on_connect" /\ thr["B"] = {}

\* C13: the gate of an endpoint is signaled at most once over the endpoint's
\* life, hence at most once per handshake round and never a second time
\* without a successful wait in between, whatever connect retries, foreign
\* messages or confirmations come; its count never exceeds 1.
C13_GateOnce ==
    /\ [][\A e \in Endpoints :
            sem'[e] > sem[e] => sem[e] = 0 /\ ~hist[e].gate]_vars
    /\ [](\A e \in Endpoints : sem[e] <= 1)

\* witness of C13: the confirmation came after the client's connect had timed
\* out and signaled the gate, which the client's second connect has taken
C13_Witness ==
    /\ hist["A"].att = 2 /\ hist["A"].toNoAcc /\ res["A"] = "ok"
    /\ sem["A"] = 0 /\ hist["A"].gate /\ mq_wr["A"] = "S" /\ res["S"] = "ok"

\* C14: whenever connect or accept, in a run without faults, opens the write
\* queue of an endpoint, the endpoint holds no write descriptor from an
\* earlier open: over its life the write queue is opened at most once,
\* retried connects included.
C14_WriteQueueOpenedOnce ==
    [][\A e \in Endpoints :
          (/\ \A x \in Endpoints : fault[x] = "none"
           /\ \/ hist'[e].att = hist[e].att + 1 /\ mq_wr'[e] # NoQ
              \/ cpc[e] = "acc_wait" /\ cpc'[e] = "acc_send")
             => mq_wr[e] = NoQ]_vars

\* C15: once a firing of an endpoint has failed to re-arm or to receive, no
\* message that arrives later triggers a firing that ends in an invocation
\* of the receive callback: the dispatcher delivers nothing more.
C15_DispatcherStops ==
    \A e \in Endpoints :
        fault[e] = "none" => \A r \in calls[e] : ~r.late

\* C16: init of an endpoint under a name for which a queue exists succeeds:
\* the endpoint is live with a read queue of that name that holds no message
\* and has on_connect registered, and the stale queue is no longer reachable
\* by that name (descriptors open on it do not reach the new queue).
C16_StaleNameAtInit ==
    [][\A e \in Endpoints :
          (/\ est[e] = "none" /\ linked[e]
           /\ est'[e] # "none" \/ res'[e] # res[e])
             => /\ est'[e] = "live" /\ res'[e] # "initfail"
                /\ linked'[e] /\ msgs'[e] = <<>>
                /\ notify'[e] = "on_connect"
                /\ \A x \in Endpoints : mq_wr'[x] # e]_vars

\* witness of C16: the client had opened and written to a stale queue of the
\* server's name; the server's init has made a fresh empty queue of that
\* name, and the client's descriptor has stayed on the old one
C16_Witness ==
    /\ est["S"] = "live" /\ linked["S"] /\ msgs["S"] = <<>>
    /\ notify["S"] = "on_connect"
    /\ mq_wr["A"] = Orphan /\ cpc["A"] = "conn_wait"

\* C17: a handler thread that is about to receive has read a parent pointer
\* that accept or connect had set: no handler receives through a null parent.
C17_ParentSetBeforeFiring ==
    \A e \in Endpoints :
        \A t \in thr[e] : t.pc = "recv" => t.ipc /\ parent[e]

\* C18 as claimed: whenever connect has returned success on a client, some
\* server has received and stored that client's read-queue name as its peer
\* name, has its write queue open on that client's read queue and has sent its
\* confirmation.
C18_HandshakeAgreement ==
    \A c \in Clients :
        res[c] = "ok"
           => \E s \in Servers :
                 /\ hist[s].gate /\ mq_wr_name[s] = mq_rd_name(c)
                 /\ mq_wr[s] = c /\ hist[s].won

\* C18, amended: the same holds whenever connect has returned success on a
\* client on which connect was only ever called with the name of a server's
\* queue.
C18_AgreementWhenServerNamed ==
    \A c \in Clients :
        (res[c] = "ok" /\ ~hist[c].misdial)
           => \E s \in Servers :
                 /\ hist[s].gate /\ mq_wr_name[s] = mq_rd_name(c)
                 /\ mq_wr[s] = c /\ hist[s].won

\* witness of C18: the client's one connect, to the server's name, has
\* returned success after the server's accept had sent its confirmation
C18_Witness ==
    /\ res["A"] = "ok" /\ hist["A"].att = 1 /\ ~hist["A"].misdial
    /\ mq_wr["A"] = "S" /\ mq_wr["S"] = "A" /\ res["S"] = "ok"
    /\ mq_wr_name["S"] = mq_rd_name("A")

\* C19: no handler thread of an endpoint reads the endpoint's context, its
\* read descriptor or the receive buffer after deinit has closed and freed
\* them, however deinit and the firing interleave.
C19_NoHandlerAfterTeardown ==
    \A e \in Endpoints : fault[e] # "use_after_free"

\* C20: while an endpoint stays alive, no step (the init or deinit of another
\* endpoint of its process included) frees the receive buffer its dispatcher
\* writes into or puts another buffer in its place; and no deinit frees a
\* buffer that was freed before.
C20_EndpointIsolation ==
    /\ [][\A e \in Endpoints :
            (est[e] = "live" /\ est'[e] = "live")
               => /\ recv_buf'[host[e]].gen = recv_buf[host[e]].gen
                  /\ recv_buf'[host[e]].st = "alloc"]_vars
    /\ [](\A e \in Endpoints : fault[e] \notin {"double_free", "buffer_freed"})

====
